---- MODULE Spec2Model ----
(***************************************************************************)
(* chksvs: conversion of hadock-wrapped SVS capture files into CSV/XML.    *)
(*                                                                         *)
(* Text (file names, paths, formatted numbers, file contents) is modelled  *)
(* as sequences of byte codes (ASCII), binary input as sequences of bytes. *)
(* Integers of the model stay below 2^31; inputs are chosen accordingly.   *)
(***************************************************************************)
EXTENDS Integers, Sequences, FiniteSets, TLC

(* ------------------------------ bounds --------------------------------- *)

\* number of input paths given to one run
NumFiles == 3
\* largest number of underscore separated segments of an input base name
MaxSegs == 7
\* largest column count of a generated sample block
MaxCols == 2
\* largest number of complete rows of a generated sample block
MaxRows == 2
\* largest number of extra bytes following the last complete row
MaxExtra == 5
\* cap of the row counter of processData when stepping the row loop
MaxIter == 4

(* ----------------------------- constants ------------------------------- *)

DefaultWorkers == 4
DefaultFiles == 512

\* "SVS "
magic == <<83, 86, 83, 32>>
\* ".bad"
bad == <<46, 98, 97, 100>>

(* ------------------------- text and byte helpers ------------------------ *)

RECURSIVE SumSeq(_)
SumSeq(s) == IF s = <<>> THEN 0 ELSE Head(s) + SumSeq(Tail(s))

Reverse(s) == [k \in 1..Len(s) |-> s[Len(s) + 1 - k]]

\* digit of fmt's %d / %x verbs (lower case hexadecimal)
DigitByte(d) == IF d < 10 THEN 48 + d ELSE 87 + d

RECURSIVE FormatUint(_, _)
FormatUint(n, base) ==
    IF n < base THEN <<DigitByte(n)>>
    ELSE FormatUint(n \div base, base) \o <<DigitByte(n % base)>>

RECURSIVE ZeroPad(_, _)
ZeroPad(s, width) == IF Len(s) >= width THEN s ELSE ZeroPad(<<48>> \o s, width)

\* fmt.Sprintf("%06d", n), fmt.Sprintf("%04x", n), strconv.Itoa(n) for n >= 0
Sprintf06d(n) == ZeroPad(FormatUint(n, 10), 6)
Sprintf04x(n) == ZeroPad(FormatUint(n, 16), 4)
Itoa(n) == FormatUint(n, 10)

\* encoding/binary: big and little endian unsigned integers
RECURSIVE BigEndian(_)
BigEndian(bs) ==
    IF bs = <<>> THEN 0
    ELSE BigEndian(SubSeq(bs, 1, Len(bs) - 1)) * 256 + bs[Len(bs)]

LittleEndian(bs) == BigEndian(Reverse(bs))

\* io.ReadFull of n bytes from a reader over data at position pos (bytes
\* already consumed): io.EOF when nothing is left, io.ErrUnexpectedEOF when
\* fewer than n bytes are left, and the reader is drained in both cases.
ReadFull(data, pos, n) ==
    IF Len(data) - pos >= n
    THEN [err |-> "nil", bytes |-> SubSeq(data, pos + 1, pos + n), pos |-> pos + n]
    ELSE IF Len(data) - pos = 0
    THEN [err |-> "EOF", bytes |-> <<>>, pos |-> pos]
    ELSE [err |-> "unexpected EOF", bytes |-> <<>>, pos |-> Len(data)]

\* strings.Split(s, sep) for a one byte separator
RECURSIVE Split(_, _)
Split(s, sep) ==
    IF \A k \in 1..Len(s) : s[k] # sep THEN <<s>>
    ELSE LET k == CHOOSE j \in 1..Len(s) :
                     s[j] = sep /\ \A m \in 1..(j - 1) : s[m] # sep
         IN <<SubSeq(s, 1, k - 1)>> \o Split(SubSeq(s, k + 1, Len(s)), sep)

\* strings.Join(parts, sep)
RECURSIVE Join(_, _)
Join(parts, sep) ==
    IF parts = <<>> THEN <<>>
    ELSE IF Len(parts) = 1 THEN parts[1]
    ELSE parts[1] \o <<sep>> \o Join(Tail(parts), sep)

\* filepath.Base for a clean, non empty slash separated path
Base(path) ==
    IF \A k \in 1..Len(path) : path[k] # 47 THEN path
    ELSE LET k == CHOOSE j \in 1..Len(path) :
                     path[j] = 47 /\ \A m \in (j + 1)..Len(path) : path[m] # 47
         IN SubSeq(path, k + 1, Len(path))

\* filepath.Ext: the suffix of the last element starting at its last dot
Ext(path) ==
    LET b == Base(path)
    IN IF \A k \in 1..Len(b) : b[k] # 46 THEN <<>>
       ELSE LET k == CHOOSE j \in 1..Len(b) :
                        b[j] = 46 /\ \A m \in (j + 1)..Len(b) : b[m] # 46
            IN SubSeq(b, k, Len(b))

\* filepath.Join of two clean elements: empty elements are ignored
PathJoin(a, b) ==
    IF b = <<>> THEN a ELSE IF a = <<>> THEN b ELSE a \o <<47>> \o b

\* bytes.Trim(xs, "\x00"): leading and trailing zero bytes are removed
RECURSIVE TrimLeftZero(_)
TrimLeftZero(xs) ==
    IF xs # <<>> /\ Head(xs) = 0 THEN TrimLeftZero(Tail(xs)) ELSE xs

RECURSIVE TrimRightZero(_)
TrimRightZero(xs) ==
    IF xs # <<>> /\ xs[Len(xs)] = 0
    THEN TrimRightZero(SubSeq(xs, 1, Len(xs) - 1)) ELSE xs

TrimZero(xs) == TrimLeftZero(TrimRightZero(xs))

(* ------------------------------ Timestamp ------------------------------ *)

\* Timestamp.Time: GPS epoch 1980-01-06T00:00:00Z plus t nanoseconds.  The
\* model covers ticks below one minute (the whole range of model integers),
\* so only the seconds and the nanoseconds of the calendar time vary.
Time(t) == [sec |-> t \div 1000000000, nsec |-> t % 1000000000]

RECURSIVE TrimRightDigitZero(_)
TrimRightDigitZero(ds) ==
    IF ds # <<>> /\ ds[Len(ds)] = 48
    THEN TrimRightDigitZero(SubSeq(ds, 1, Len(ds) - 1)) ELSE ds

\* Timestamp.String: layout "2006-01-02T15:04:05.999999999Z"
TimestampString(t) ==
    LET tm == Time(t)
        frac == TrimRightDigitZero(ZeroPad(FormatUint(tm.nsec, 10), 9))
    IN <<49, 57, 56, 48, 45, 48, 49, 45, 48, 54, 84, 48, 48, 58, 48, 48, 58>>
       \o ZeroPad(FormatUint(tm.sec, 10), 2)
       \o (IF frac = <<>> THEN <<>> ELSE <<46>> \o frac)
       \o <<90>>

\* acqt.Format("20060102_150406"): the date, "_", the hour, the minute and,
\* for the layout's last element 06, the two digit year (not the seconds)
CompactTime(t) ==
    <<49, 57, 56, 48, 48, 49, 48, 54, 95, 48, 48, 48, 48>>
    \o ZeroPad(FormatUint((1980 + Time(t).sec \div 31536000) % 100, 10), 2)

\* n zero bytes
Zeros(n) == SubSeq(<<0>> \o [k \in 1..n |-> 0], 2, n + 1)

(* ------------------------------ Metadata ------------------------------- *)

\* type UPI [32]byte
UPISize == 32

\* struct Metadata with its first field left out of what is read
MetadataLayoutMagicUnread ==
    << [field |-> "Magic",       size |-> 0,       tag |-> "-"],
       [field |-> "Acquisition", size |-> 8,       tag |-> "acquisition-time"],
       [field |-> "Sequence",    size |-> 4,       tag |-> "originator-seq-no"],
       [field |-> "Auxiliary",   size |-> 8,       tag |-> "auxiliary-time"],
       [field |-> "Source",      size |-> 1,       tag |-> "originator-id"],
       [field |-> "X",           size |-> 2,       tag |-> "source-x-size"],
       [field |-> "Y",           size |-> 2,       tag |-> "source-y-size"],
       [field |-> "Format",      size |-> 1,       tag |-> "format"],
       [field |-> "Drop",        size |-> 2,       tag |-> "fdrp"],
       [field |-> "OffsetX",     size |-> 2,       tag |-> "roi-x-offset"],
       [field |-> "SizeX",       size |-> 2,       tag |-> "roi-x-size"],
       [field |-> "OffsetY",     size |-> 2,       tag |-> "roi-y-offset"],
       [field |-> "SizeY",       size |-> 2,       tag |-> "roi-y-size"],
       [field |-> "ScaleX",      size |-> 2,       tag |-> "scale-x-size"],
       [field |-> "ScaleY",      size |-> 2,       tag |-> "scale-y-size"],
       [field |-> "Ratio",       size |-> 1,       tag |-> "scale-far"],
       [field |-> "UPI",         size |-> UPISize, tag |-> "user-packet-info"] >>

\* The fields of struct Metadata in declaration order, with the number of
\* bytes encoding/binary reads for each and the name of the xml struct tag.
\* binary.Read decodes every field of the struct, whatever its xml tag.
MetadataLayout ==
    << [field |-> "Magic",       size |-> 1,       tag |-> "-"],
       [field |-> "Acquisition", size |-> 8,       tag |-> "acquisition-time"],
       [field |-> "Sequence",    size |-> 4,       tag |-> "originator-seq-no"],
       [field |-> "Auxiliary",   size |-> 8,       tag |-> "auxiliary-time"],
       [field |-> "Source",      size |-> 1,       tag |-> "originator-id"],
       [field |-> "X",           size |-> 2,       tag |-> "source-x-size"],
       [field |-> "Y",           size |-> 2,       tag |-> "source-y-size"],
       [field |-> "Format",      size |-> 1,       tag |-> "format"],
       [field |-> "Drop",        size |-> 2,       tag |-> "fdrp"],
       [field |-> "OffsetX",     size |-> 2,       tag |-> "roi-x-offset"],
       [field |-> "SizeX",       size |-> 2,       tag |-> "roi-x-size"],
       [field |-> "OffsetY",     size |-> 2,       tag |-> "roi-y-offset"],
       [field |-> "SizeY",       size |-> 2,       tag |-> "roi-y-size"],
       [field |-> "ScaleX",      size |-> 2,       tag |-> "scale-x-size"],
       [field |-> "ScaleY",      size |-> 2,       tag |-> "scale-y-size"],
       [field |-> "Ratio",       size |-> 1,       tag |-> "scale-far"],
       [field |-> "UPI",         size |-> UPISize, tag |-> "user-packet-info"] >>

\* The anonymous struct read at the start of processFile: FCC, Seq, When.
EnvelopeLayout ==
    << [field |-> "FCC",  size |-> 4, tag |-> "-"],
       [field |-> "Seq",  size |-> 4, tag |-> "-"],
       [field |-> "When", size |-> 8, tag |-> "-"] >>

\* binary.Size of a struct: the sum of the sizes of its fields, no padding
StructSize(layout) == SumSeq([k \in 1..Len(layout) |-> layout[k].size])

\* offset of the k-th field within the encoded struct
FieldOffset(layout, k) == SumSeq([j \in 1..(k - 1) |-> layout[j].size])

FieldIndex(layout, fld) == CHOOSE k \in 1..Len(layout) : layout[k].field = fld

FieldBytes(layout, bs, fld) ==
    LET k == FieldIndex(layout, fld)
    IN SubSeq(bs, FieldOffset(layout, k) + 1, FieldOffset(layout, k) + layout[k].size)

\* an unsigned integer field in little endian
FieldUint(layout, bs, fld) == LittleEndian(FieldBytes(layout, bs, fld))

\* binary.Read(r, binary.LittleEndian, &info) once the bytes are there:
\* integers are little endian, the UPI array is taken byte by byte.
DecodeMetadata(bs) ==
    [Magic       |-> FieldUint(MetadataLayout, bs, "Magic"),
     Acquisition |-> FieldUint(MetadataLayout, bs, "Acquisition"),
     Sequence    |-> FieldUint(MetadataLayout, bs, "Sequence"),
     Auxiliary   |-> FieldUint(MetadataLayout, bs, "Auxiliary"),
     Source      |-> FieldUint(MetadataLayout, bs, "Source"),
     X           |-> FieldUint(MetadataLayout, bs, "X"),
     Y           |-> FieldUint(MetadataLayout, bs, "Y"),
     Format      |-> FieldUint(MetadataLayout, bs, "Format"),
     Drop        |-> FieldUint(MetadataLayout, bs, "Drop"),
     OffsetX     |-> FieldUint(MetadataLayout, bs, "OffsetX"),
     SizeX       |-> FieldUint(MetadataLayout, bs, "SizeX"),
     OffsetY     |-> FieldUint(MetadataLayout, bs, "OffsetY"),
     SizeY       |-> FieldUint(MetadataLayout, bs, "SizeY"),
     ScaleX      |-> FieldUint(MetadataLayout, bs, "ScaleX"),
     ScaleY      |-> FieldUint(MetadataLayout, bs, "ScaleY"),
     Ratio       |-> FieldUint(MetadataLayout, bs, "Ratio"),
     UPI         |-> FieldBytes(MetadataLayout, bs, "UPI")]

ZeroMetadata == DecodeMetadata(Zeros(StructSize(MetadataLayout)))

\* UPI.MarshalXML: the start element handed in by the encoder is ignored
UPIMarshalXML(u) == [name |-> "upi", value |-> TrimZero(u)]

\* Timestamp.MarshalXML: the start element handed in by the encoder is ignored
TimestampMarshalXML(t) == [name |-> "acquisition-time", value |-> TimestampString(t)]

\* Timestamp.MarshalXMLAttr
TimestampMarshalXMLAttr(n, t) == [name |-> n, value |-> TimestampString(t)]

\* encoding/xml on one field of Metadata: a Marshaler field marshals itself,
\* an integer field is an element named by its tag holding its decimal text.
MarshalField(entry, info) ==
    IF entry.field = "Acquisition" THEN TimestampMarshalXML(info[entry.field])
    ELSE IF entry.field = "UPI" THEN UPIMarshalXML(info[entry.field])
    ELSE [name |-> entry.tag, value |-> FormatUint(info[entry.field], 10)]

\* e.Encode(elem) in processMeta: root element metadata, the three svs-
\* attributes, then the fields of the embedded Metadata whose tag is not "-".
EncodeElem(when, seq, source, info) ==
    LET shown == SelectSeq(MetadataLayout, LAMBDA e : e.tag # "-")
    IN [root  |-> "metadata",
        attrs |-> << TimestampMarshalXMLAttr("svs-timestamp", when),
                     [name |-> "svs-sequence", value |-> FormatUint(seq, 10)],
                     [name |-> "svs-file", value |-> Base(source)] >>,
        elems |-> [k \in 1..Len(shown) |-> MarshalField(shown[k], info)]]

NoDoc == [root |-> "", attrs |-> <<>>, elems |-> <<>>]

\* strconv.FormatFloat(float64(v), 'f', -1, 32) of the float32 whose little
\* endian encoding is bs, for the values the generated sample blocks hold:
\* 0 -> "0", 1.5 -> "1.5", -2.25 -> "-2.25"; "?" stands for any other text.
FormatFloat(bs) ==
    CASE bs = <<0, 0, 0, 0>>     -> <<48>>
      [] bs = <<0, 0, 192, 63>>  -> <<49, 46, 53>>
      [] bs = <<0, 0, 16, 192>>  -> <<45, 50, 46, 50, 53>>
      [] OTHER                   -> <<63>>

(* ------------------------------ processFile ---------------------------- *)

\* The locals of one call of processFile(file, datadir, per) and what it has
\* written so far.  fault names the one file system call that fails in this
\* execution ("none": every call succeeds).
NewExec(path, data, fault, root, n) ==
    [pc      |-> "open",
     path    |-> path,       \* parameter file
     data    |-> data,       \* the bytes of the file at path
     fault   |-> fault,
     root    |-> root,       \* parameter datadir
     per     |-> n,          \* parameter per, reassigned by processMeta's result
     r       |-> 0,          \* bytes of r consumed so far
     FCC     |-> <<0, 0, 0, 0>>,
     Seq     |-> 0,
     When    |-> 0,
     upi     |-> <<>>,
     datadir |-> root,
     info    |-> ZeroMetadata,
     name    |-> <<>>,       \* file name computed by processMeta
     file    |-> <<>>,       \* first result of processFile
     err     |-> "nil",      \* second result of processFile
     buf     |-> <<>>,       \* processData: ioutil.ReadAll(r)
     rs      |-> 0,          \* bytes of rs consumed so far
     b       |-> 0,          \* column count
     vs      |-> <<>>,
     i       |-> 0,
     csvw    |-> <<>>,       \* records held by the csv.Writer, not yet flushed
     dirs    |-> {},         \* directories made
     ini     |-> [made |-> FALSE, path |-> <<>>, body |-> <<>>],
     xml     |-> [made |-> FALSE, path |-> <<>>, doc |-> NoDoc],
     csv     |-> [made |-> FALSE, path |-> <<>>, rows |-> <<>>]]

Return(s, file, err) == [s EXCEPT !.pc = "ret", !.file = file, !.err = err]

\* os.Open(file)
stOpen(s) ==
    IF s.fault = "open" THEN Return(s, <<>>, "open")
    ELSE [s EXCEPT !.pc = "envelope"]

\* binary.Read(r, binary.BigEndian, &meta)
stEnvelope(s) ==
    LET rd == ReadFull(s.data, s.r, StructSize(EnvelopeLayout))
    IN IF rd.err # "nil" THEN Return([s EXCEPT !.r = rd.pos], <<>>, rd.err)
       ELSE [s EXCEPT !.pc   = "magic",
                      !.r    = rd.pos,
                      !.FCC  = FieldBytes(EnvelopeLayout, rd.bytes, "FCC"),
                      !.Seq  = BigEndian(FieldBytes(EnvelopeLayout, rd.bytes, "Seq")),
                      !.When = BigEndian(FieldBytes(EnvelopeLayout, rd.bytes, "When"))]

\* a tag check that reports a file of another tag as an error
stMagicStrict(s) ==
    IF s.FCC # magic THEN Return(s, <<>>, "bad magic")
    ELSE [s EXCEPT !.pc = "upi"]

\* if !bytes.Equal(meta.FCC[:], []byte(magic)) { return "", nil }
stMagic(s) ==
    IF s.FCC # magic THEN Return(s, <<>>, "nil")
    ELSE [s EXCEPT !.pc = "upi"]

\* parts[1:len(parts)-5] panics (slice bounds out of range) when the upper
\* bound is below the lower one, i.e. when there are fewer than 6 parts.
SliceInRange(parts) == 1 <= Len(parts) - 5

\* upi = strings.Join(parts[1:len(parts)-5], "_"); datadir = Join(datadir, upi)
stUPI(s) ==
    LET parts == Split(Base(s.path), 95)
    IN IF ~SliceInRange(parts) THEN [s EXCEPT !.pc = "panic"]
       ELSE LET upi == Join(SubSeq(parts, 2, Len(parts) - 5), 95)
            IN [s EXCEPT !.pc = "mkdir", !.upi = upi, !.datadir = PathJoin(s.root, upi)]

\* os.MkdirAll(datadir, 0755), then the branch on meta.Seq == 1
stMkdir(s) ==
    IF s.fault = "mkdir" THEN Return(s, <<>>, "mkdir")
    ELSE [s EXCEPT !.pc = IF s.Seq = 1 THEN "intro" ELSE "meta",
                   !.dirs = @ \cup {s.datadir}]

\* return processIntro(r, datadir, upi)
stIntro(s) ==
    IF s.fault = "create" THEN Return(s, <<>>, "create")
    ELSE LET w == PathJoin(s.datadir, s.upi \o <<46, 105, 110, 105>>)
         IN Return([s EXCEPT !.r = Len(s.data),
                             !.ini = [made |-> TRUE, path |-> w,
                                      body |-> SubSeq(s.data, s.r + 1, Len(s.data))]],
                   w, "nil")

\* subdir = int64(info.Sequence) / per
Subdir(info, n) == info.Sequence \div n

\* file, per, err = processMeta(r, datadir, upi, file, per, meta.Seq, meta.When)
\* and, when err is nil, file = filepath.Join(datadir, "%06d" of per, file)
stMeta(s) ==
    LET rd == ReadFull(s.data, s.r, StructSize(MetadataLayout))
    IN IF rd.err # "nil"
       THEN Return([s EXCEPT !.r = rd.pos, !.per = -1], <<>>, rd.err)
       ELSE
       LET info   == DecodeMetadata(rd.bytes)
           file   == Sprintf04x(info.Source) \o <<95>> \o s.upi \o <<95>>
                     \o CompactTime(info.Acquisition) \o <<95>>
                     \o Sprintf06d(info.Sequence) \o <<46, 99, 115, 118>>
           subdir == Subdir(info, s.per)
           dir    == PathJoin(s.datadir, Sprintf06d(subdir))
           t      == [s EXCEPT !.r = rd.pos, !.info = info, !.per = subdir]
       IN IF s.fault = "mkdirsub" THEN Return(t, <<>>, "mkdir")
          ELSE IF s.fault = "create"
          THEN Return([t EXCEPT !.dirs = @ \cup {dir}], <<>>, "create")
          ELSE [t EXCEPT !.pc   = "data",
                         !.dirs = @ \cup {dir},
                         !.name = file,
                         !.xml  = [made |-> TRUE,
                                   path |-> PathJoin(dir, file) \o <<46, 120, 109, 108>>,
                                   doc  |-> EncodeElem(s.When, s.Seq, s.path, info)],
                         !.file = PathJoin(PathJoin(s.datadir, Sprintf06d(subdir)), file)]

\* processData: os.Create(file), ioutil.ReadAll(r), the csv writer and rs
stData(s) ==
    IF s.fault = "createcsv" THEN Return(s, s.file, "create")
    ELSE [s EXCEPT !.pc  = "header",
                   !.csv = [made |-> TRUE, path |-> s.file, rows |-> <<>>],
                   !.buf = SubSeq(s.data, s.r + 1, Len(s.data)),
                   !.r   = Len(s.data),
                   !.rs  = 0]

\* for j := 0; j < int(b); j++ { binary.Read(rs, LittleEndian, &v) ... }
\* with v of size bytes: the loop from j on, as [err, rs, vs]
RECURSIVE ReadColumns(_, _, _, _, _, _)
ReadColumns(buf, rs, vs, j, b, size) ==
    IF j >= b THEN [err |-> "nil", rs |-> rs, vs |-> vs]
    ELSE LET rd == ReadFull(buf, rs, size)
         IN IF rd.err # "nil" THEN [err |-> rd.err, rs |-> rd.pos, vs |-> vs]
            ELSE ReadColumns(buf, rd.pos,
                     [vs EXCEPT ![j + 2] =
                         IF size = 2
                         THEN <<103, 50, 40, 116, 44, 32>>
                              \o FormatUint(LittleEndian(rd.bytes), 10) \o <<41>>
                         ELSE FormatFloat(rd.bytes)],
                     j + 1, b, size)

\* b, err := rs.ReadByte(); vs := make([]string, int(b)+1); vs[0] = "t";
\* the scale words; ws.Write(vs)
stHeader(s) ==
    IF Len(s.buf) - s.rs = 0 THEN Return(s, s.file, "EOF")
    ELSE LET b  == s.buf[s.rs + 1]
             vs == [k \in 1..(b + 1) |-> IF k = 1 THEN <<116>> ELSE <<>>]
             rc == ReadColumns(s.buf, s.rs + 1, vs, 0, b, 2)
         IN IF rc.err # "nil"
            THEN Return([s EXCEPT !.b = b, !.rs = rc.rs, !.vs = rc.vs], s.file, rc.err)
            ELSE [s EXCEPT !.pc = "rows", !.b = b, !.rs = rc.rs, !.vs = rc.vs,
                           !.i = 0, !.csvw = <<rc.vs>>]

\* the condition of the row loop: rs.Len() > 0
RowsLeft(s) == Len(s.buf) - s.rs > 0

\* a row loop that takes a short row for the end of the data
stRowStopOnError(s) ==
    LET rc == ReadColumns(s.buf, s.rs, [s.vs EXCEPT ![1] = Itoa(s.i)], 0, s.b, 4)
    IN IF rc.err # "nil"
       THEN [s EXCEPT !.pc = "flush", !.rs = rc.rs, !.vs = rc.vs]
       ELSE [s EXCEPT !.rs = rc.rs, !.vs = rc.vs, !.i = @ + 1,
                      !.csvw = Append(@, rc.vs)]

\* one iteration of the row loop: vs[0] = strconv.Itoa(i), the b floats of
\* the row, ws.Write(vs), i++
stRow(s) ==
    LET rc == ReadColumns(s.buf, s.rs, [s.vs EXCEPT ![1] = Itoa(s.i)], 0, s.b, 4)
    IN IF rc.err # "nil"
       THEN Return([s EXCEPT !.rs = rc.rs, !.vs = rc.vs], s.file, rc.err)
       ELSE [s EXCEPT !.rs = rc.rs, !.vs = rc.vs, !.i = @ + 1,
                      !.csvw = Append(@, rc.vs)]

\* the row loop is left
stRowsDone(s) == [s EXCEPT !.pc = "flush"]

\* ws.Flush(); return ws.Error() and processFile's return file, err
stFlush(s) ==
    Return([s EXCEPT !.csv = [@ EXCEPT !.rows = s.csvw], !.csvw = <<>>], s.file, "nil")

\* the next step of an execution that has not returned
Step(s) ==
    CASE s.pc = "open"     -> stOpen(s)
      [] s.pc = "envelope" -> stEnvelope(s)
      [] s.pc = "magic"    -> stMagic(s)
      [] s.pc = "upi"      -> stUPI(s)
      [] s.pc = "mkdir"    -> stMkdir(s)
      [] s.pc = "intro"    -> stIntro(s)
      [] s.pc = "meta"     -> stMeta(s)
      [] s.pc = "data"     -> stData(s)
      [] s.pc = "header"   -> stHeader(s)
      [] s.pc = "rows"     -> IF RowsLeft(s) THEN stRow(s) ELSE stRowsDone(s)
      [] s.pc = "flush"    -> stFlush(s)

\* An iteration of the row loop that leaves the reader where it was is
\* followed by the same iteration again, for ever: the call never returns.
Spins(s) == s.pc = "rows" /\ RowsLeft(s) /\ stRow(s).pc = "rows" /\ stRow(s).rs = s.rs

\* processFile run to its end: pc is "ret" (returned file, err), "panic"
\* (run time panic) or "hang" (the call never returns)
RECURSIVE Run(_)
Run(s) ==
    IF s.pc \in {"ret", "panic", "hang"} THEN s
    ELSE IF Spins(s) THEN [s EXCEPT !.pc = "hang"]
    ELSE Run(Step(s))

processFile(path, data, fault, root, n) == Run(NewExec(path, data, fault, root, n))

(* ------------------------------ input files ---------------------------- *)

RECURSIVE EncLE(_, _)
EncLE(n, w) == IF w = 0 THEN <<>> ELSE <<n % 256>> \o EncLE(n \div 256, w - 1)

EncBE(n, w) == Reverse(EncLE(n, w))

\* the float32 values 1.5, -2.25 and 0 in little endian
FloatPool == << <<0, 0, 192, 63>>, <<0, 0, 16, 192>>, <<0, 0, 0, 0>> >>

RECURSIVE Flatten(_)
Flatten(ss) == IF ss = <<>> THEN <<>> ELSE Head(ss) \o Flatten(Tail(ss))

\* A file written by the relay, described by d: the 16 byte envelope, the
\* packet metadata record (one leading byte mg, then the fields of the
\* packet), the sample block of d.cols columns and d.rows rows followed by
\* the first d.extra bytes of one more row; the whole cut to d.cut bytes
\* when d.cut >= 0.
FileBytes(d) ==
    LET envelope == d.tag \o EncBE(d.seq, 4) \o EncBE(d.when, 8)
        record   == <<d.mg>> \o EncLE(d.acq, 8) \o EncLE(d.mseq, 4) \o EncLE(d.aux, 8)
                    \o <<d.src>> \o EncLE(640, 2) \o EncLE(480, 2) \o <<3>>
                    \o EncLE(0, 2) \o EncLE(1, 2) \o EncLE(2, 2) \o EncLE(3, 2)
                    \o EncLE(4, 2) \o EncLE(5, 2) \o EncLE(6, 2) \o <<7>>
                    \o d.upi \o Zeros(UPISize - Len(d.upi))
        scales   == Flatten([k \in 1..d.cols |-> EncLE(4 * k + 1, 2)])
        floats   == Flatten([k \in 1..(d.cols * d.rows + 2) |-> FloatPool[((k - 1) % 3) + 1]])
        block    == <<d.cols>> \o scales
                    \o SubSeq(floats, 1, 4 * d.cols * d.rows + d.extra)
        payload  == IF d.seq = 1 THEN <<91, 105, 93, 10>> ELSE record \o block
        whole    == envelope \o payload
    IN IF d.cut >= 0 /\ d.cut < Len(whole) THEN SubSeq(whole, 1, d.cut) ELSE whole

\* An input path with d.segs underscore separated segments "A", "B", ... in
\* its base name, in directory "in<k>", with suffix ".bad" when d.isbad.
FilePath(k, d) ==
    <<105, 110, 48 + k, 47>>
    \o Join([j \in 1..d.segs |-> <<64 + j>>], 95)
    \o (IF d.isbad THEN bad ELSE <<>>)

\* a complete data record in a well named file: envelope sequence 2,
\* originator sequence 7, originator 0x0a, identifier FOO, 2 columns, 1 row
Sample ==
    [tag |-> magic, seq |-> 2, when |-> 1500000000,
     mg |-> 0, acq |-> 2000001, mseq |-> 7, aux |-> 0, src |-> 10,
     upi |-> <<70, 79, 79>>, cols |-> 2, rows |-> 1, extra |-> 0, cut |-> -1,
     segs |-> 7, isbad |-> FALSE, fault |-> "none"]

\* envelope sequence counters: the introductory value and two data values
Seqs == {1, 2, 1025}

Tags == {magic, <<83, 86, 83, 95>>, <<115, 118, 115, 32>>}

CutLens == {0, 3, 4, 15, 16, 17, 50, 89, 90}

Faults == {"open", "mkdir", "mkdirsub", "create", "createcsv"}

\* files of any tag and length
TagInputs ==
    {[Sample EXCEPT !.tag = t, !.seq = q, !.cut = c] :
        t \in Tags, q \in Seqs, c \in CutLens \cup {-1}}

\* files of any number of name segments
NameInputs ==
    {[Sample EXCEPT !.segs = n, !.seq = q, !.tag = t] :
        n \in 1..MaxSegs, q \in {1, 2}, t \in {magic, <<83, 86, 83, 95>>}}

\* data records of any sequence counters and metadata
MetaInputs ==
    {[Sample EXCEPT !.seq = q, !.mseq = m, !.mg = g, !.acq = a, !.upi = u, !.src = o] :
        q \in {2, 1025}, m \in {7, 1025, 70000}, g \in {0, 5},
        a \in {1500000, 2000001},
        u \in {<<70, 79, 79>>, <<0, 70, 0, 79>>}, o \in {10, 255}}

\* sample blocks of any shape
BlockInputs ==
    {[Sample EXCEPT !.cols = n, !.rows = r, !.extra = e] :
        n \in 0..MaxCols, r \in 0..MaxRows, e \in 0..MaxExtra}

\* executions in which one file system call fails
FaultInputs ==
    {[Sample EXCEPT !.fault = ft, !.seq = q] : ft \in Faults, q \in {1, 2}}

Inputs == TagInputs \cup NameInputs \cup MetaInputs \cup BlockInputs \cup FaultInputs

\* -p given on the command line
PerFlags == {0, 2}

\* -w given on the command line
WorkerFlags == {0, 1, 2}

\* if *per <= 0 { *per = DefaultFiles }
EffectivePer(p) == IF p <= 0 THEN DefaultFiles ELSE p

\* if *workers <= 0 { *workers = DefaultWorkers }
EffectiveWorkers(w) == IF w <= 0 THEN DefaultWorkers ELSE w

\* -d: the output root "out"
DataDir == <<111, 117, 116>>

\* the files one run is given, each under its own name: an introductory
\* record, a data record cut inside a row, a recognized file with a short
\* name, a sample block of zero columns followed by one byte, and a file of
\* another tag with suffix .bad
RunInputs ==
    { [Sample EXCEPT !.seq = 1, !.segs = 6],
      [Sample EXCEPT !.extra = 3],
      [Sample EXCEPT !.segs = 5],
      [Sample EXCEPT !.cols = 0, !.extra = 1, !.segs = 8],
      [Sample EXCEPT !.tag = <<83, 86, 83, 95>>, !.isbad = TRUE] }

(* -------------------------------- state -------------------------------- *)

VARIABLES
    workers,    \* *workers: flag -w, then the effective worker count
    per,        \* *per: flag -p, then the effective files per directory
    keepbad,    \* *keepbad: flag -k
    args,       \* flag.Args(): the paths of the files named
    widx,       \* walkFiles: number of arguments walked so far
    closed,     \* walkFiles: the queue is closed
    mpc,        \* main: where it is
    f,          \* main: the loop variable f
    fid,        \* main: fid
    sema,       \* the weighted semaphore: its size and the units held
    gor,        \* the goroutines started by main, by fid
    log,        \* the lines logged
    crashed,    \* a goroutine panicked: the process has exited
    x           \* one execution of processFile, stepped statement by statement

vars == <<workers, per, keepbad, args, widx, closed, mpc, f, fid, sema, gor, log, crashed, x>>

runnerVars == <<workers, per, keepbad, args, widx, closed, mpc, f, fid, sema, gor, crashed>>

Idle == [NewExec(<<>>, <<>>, "none", <<>>, 0) EXCEPT !.pc = "idle"]

NoGoroutine == [st |-> "none", f |-> <<>>, i |-> 0]

Terminal == {"done", "failed", "skipped"}

Running == {g \in DOMAIN gor : gor[g].st = "running"}

(* ----------------------------- the goroutine --------------------------- *)

\* the lines logged by the goroutine of main for the result (file, err) of
\* processFile(f, ...): the error, or the file produced, or nothing
Report(res, path, i) ==
    IF res.err # "nil"
    THEN {[kind |-> "error", f |-> path, i |-> 0, file |-> <<>>, err |-> res.err]}
    ELSE IF res.file # <<>>
    THEN {[kind |-> "processing", f |-> path, i |-> i + 1, file |-> res.file, err |-> "nil"]}
    ELSE {}

\* how a call of processFile ended and what it returned
Summary(s) == [pc |-> s.pc, file |-> s.file, err |-> s.err]

\* the state of a file whose goroutine has returned
Outcome(res) ==
    IF res.err # "nil" THEN "failed"
    ELSE IF res.file # <<>> THEN "done" ELSE "skipped"

(* ------------------------------- the run ------------------------------- *)

\* a semaphore that lets one more unit out than it has
CanAcquireOneMore(s, n) == s.size - s.cur >= n - 1

\* sema.Acquire(ctx, n) returns once n units are free (the context is never
\* cancelled)
CanAcquire(s, n) == s.size - s.cur >= n

\* a last Acquire of one unit less than the semaphore has
DrainWeightShort(w) == w - 1

\* the weight of the last Acquire of main
DrainWeight(w) == w

\* the path the goroutine is started with: go func(f string, i int) {...}(f, fid)
GoArg(loopvar) == loopvar

\* walkFiles' filter: filepath.Ext(f) == bad && !keepbad
Filtered(path) == Ext(path) = bad /\ ~keepbad

Init ==
    /\ workers \in WorkerFlags
    /\ per = 0                    \* -p is not given
    /\ keepbad \in BOOLEAN
    /\ \E d \in [1..NumFiles -> RunInputs] :
          args = [k \in 1..NumFiles |-> FilePath(k, d[k])]
    /\ widx = 0
    /\ closed = FALSE
    /\ mpc = "flags"
    /\ f = <<>>
    /\ fid = 0
    /\ sema = [size |-> 0, cur |-> 0]
    /\ gor = [g \in 0..(NumFiles - 1) |-> NoGoroutine]
    /\ log = {}
    /\ crashed = FALSE
    /\ x = Idle

Alive == ~crashed /\ mpc \notin {"done", "idle"}

\* main up to the loop: the flags' defaults, the semaphore, iterFiles
ParseFlags ==
    /\ Alive /\ mpc = "flags"
    /\ workers' = EffectiveWorkers(workers)
    /\ per' = EffectivePer(per)
    /\ sema' = [size |-> EffectiveWorkers(workers), cur |-> 0]
    /\ mpc' = "range"
    /\ UNCHANGED <<keepbad, args, widx, closed, f, fid, gor, log, crashed, x>>

\* walkFiles: a file with the suffix .bad is not sent
WalkSkip ==
    /\ Alive /\ mpc # "flags"
    /\ widx < NumFiles
    /\ Filtered(args[widx + 1])
    /\ widx' = widx + 1
    /\ UNCHANGED <<workers, per, keepbad, args, closed, mpc, f, fid, sema, gor, log, crashed, x>>

\* walkFiles sends a path on the unbuffered queue and main's range receives it
Receive ==
    /\ Alive /\ mpc = "range"
    /\ widx < NumFiles
    /\ ~Filtered(args[widx + 1])
    /\ f' = args[widx + 1]
    /\ widx' = widx + 1
    /\ mpc' = "acquire"
    /\ UNCHANGED <<workers, per, keepbad, args, closed, fid, sema, gor, log, crashed, x>>

\* walkFiles: defer close(queue)
CloseQueue ==
    /\ Alive /\ mpc # "flags"
    /\ widx = NumFiles /\ ~closed
    /\ closed' = TRUE
    /\ UNCHANGED <<workers, per, keepbad, args, widx, mpc, f, fid, sema, gor, log, crashed, x>>

\* main: sema.Acquire(ctx, 1), the go statement, fid++
Acquire ==
    /\ Alive /\ mpc = "acquire"
    /\ CanAcquire(sema, 1)
    /\ sema' = [sema EXCEPT !.cur = @ + 1]
    /\ gor' = [gor EXCEPT ![fid] = [st |-> "running", f |-> GoArg(f), i |-> fid]]
    /\ fid' = fid + 1
    /\ mpc' = "range"
    /\ UNCHANGED <<workers, per, keepbad, args, widx, closed, f, log, crashed, x>>

\* main: the range loop ends when the queue is closed
RangeEnd ==
    /\ Alive /\ mpc = "range"
    /\ closed
    /\ mpc' = "drain"
    /\ UNCHANGED <<workers, per, keepbad, args, widx, closed, f, fid, sema, gor, log, crashed, x>>

\* main: sema.Acquire(ctx, *workers), then main returns
Drain ==
    /\ Alive /\ mpc = "drain"
    /\ CanAcquire(sema, DrainWeight(workers))
    /\ sema' = [sema EXCEPT !.cur = @ + DrainWeight(workers)]
    /\ mpc' = "done"
    /\ UNCHANGED <<workers, per, keepbad, args, widx, closed, f, fid, gor, log, crashed, x>>

\* processFile(path, *datadir, *per) for every path and effective per of a
\* run: how the call ends and what it returns
Results ==
    {[path |-> FilePath(k, d), per |-> EffectivePer(p),
      res  |-> Summary(processFile(FilePath(k, d), FileBytes(d), d.fault,
                                   DataDir, EffectivePer(p)))] :
        k \in 1..NumFiles, d \in RunInputs, p \in PerFlags}

\* what processFile(f, *datadir, *per) does for goroutine g
Result(g) == (CHOOSE e \in Results : e.path = gor[g].f /\ e.per = per).res

\* goroutine g, whose processFile returns: the log, defer sema.Release(1)
Worker(g) ==
    /\ Alive /\ gor[g].st = "running"
    /\ LET res == Result(g)
       IN /\ res.pc = "ret"
          /\ log' = log \cup Report(res, gor[g].f, gor[g].i)
          /\ gor' = [gor EXCEPT ![g].st = Outcome(res)]
    /\ sema' = [sema EXCEPT !.cur = @ - 1]
    /\ UNCHANGED <<workers, per, keepbad, args, widx, closed, mpc, f, fid, crashed, x>>

\* goroutine g, whose processFile panics: the process exits
WorkerPanic(g) ==
    /\ Alive /\ gor[g].st = "running"
    /\ Result(g).pc = "panic"
    /\ crashed' = TRUE
    /\ UNCHANGED <<workers, per, keepbad, args, widx, closed, mpc, f, fid, sema, gor, log, x>>

\* goroutine g, whose processFile never returns, stays running: no step
Hung(g) == gor[g].st = "running" /\ Result(g).pc = "hang"

Next ==
    \/ ParseFlags
    \/ WalkSkip
    \/ Receive
    \/ CloseQueue
    \/ Acquire
    \/ RangeEnd
    \/ Drain
    \/ \E g \in 0..(NumFiles - 1) : Worker(g)
    \/ \E g \in 0..(NumFiles - 1) : WorkerPanic(g)

Spec == Init /\ [][Next]_vars

\* The Go scheduler runs every goroutine that can run: main, the walker and
\* each worker take their steps when they stay enabled.
FairSpec ==
    /\ Spec
    /\ WF_vars(ParseFlags) /\ WF_vars(Receive) /\ WF_vars(Acquire)
    /\ WF_vars(RangeEnd) /\ WF_vars(Drain)
    /\ WF_vars(WalkSkip) /\ WF_vars(CloseQueue)
    /\ \A g \in 0..(NumFiles - 1) : WF_vars(Worker(g)) /\ WF_vars(WorkerPanic(g))

(* ------------------- one execution, statement by statement ------------- *)

\* One goroutine of main on one file: processFile statement by statement,
\* then the log lines of the goroutine.
CodecInit ==
    /\ workers = DefaultWorkers
    /\ per \in PerFlags
    /\ keepbad = FALSE
    /\ args = <<>>
    /\ widx = 0
    /\ closed = FALSE
    /\ mpc = "idle"
    /\ f = <<>>
    /\ fid = 0
    /\ sema = [size |-> DefaultWorkers, cur |-> 1]
    /\ gor = <<>>
    /\ log = {}
    /\ crashed = FALSE
    /\ \E d \in Inputs :
          x = NewExec(FilePath(1, d), FileBytes(d), d.fault, DataDir, EffectivePer(per))

At(pc) == ~crashed /\ x.pc = pc

Open ==
    /\ At("open") /\ x' = stOpen(x) /\ UNCHANGED <<runnerVars, log>>

ReadEnvelope ==
    /\ At("envelope") /\ x' = stEnvelope(x) /\ UNCHANGED <<runnerVars, log>>

CheckMagic ==
    /\ At("magic") /\ x' = stMagic(x) /\ UNCHANGED <<runnerVars, log>>

\* a panic of the slice expression ends the process
DeriveUPI ==
    /\ At("upi") /\ x' = stUPI(x)
    /\ crashed' = (stUPI(x).pc = "panic")
    /\ UNCHANGED <<workers, per, keepbad, args, widx, closed, mpc, f, fid, sema, gor, log>>

MkdirAll ==
    /\ At("mkdir") /\ x' = stMkdir(x) /\ UNCHANGED <<runnerVars, log>>

ProcessIntro ==
    /\ At("intro") /\ x' = stIntro(x) /\ UNCHANGED <<runnerVars, log>>

ProcessMeta ==
    /\ At("meta") /\ x' = stMeta(x) /\ UNCHANGED <<runnerVars, log>>

ProcessData ==
    /\ At("data") /\ x' = stData(x) /\ UNCHANGED <<runnerVars, log>>

WriteHeader ==
    /\ At("header") /\ x' = stHeader(x) /\ UNCHANGED <<runnerVars, log>>

\* one iteration of the row loop; the row counter is capped at MaxIter
WriteRow ==
    /\ At("rows") /\ RowsLeft(x) /\ x.i < MaxIter
    /\ x' = stRow(x) /\ UNCHANGED <<runnerVars, log>>

RowsDone ==
    /\ At("rows") /\ ~RowsLeft(x)
    /\ x' = stRowsDone(x) /\ UNCHANGED <<runnerVars, log>>

Flush ==
    /\ At("flush") /\ x' = stFlush(x) /\ UNCHANGED <<runnerVars, log>>

\* the goroutine after processFile has returned: the log, sema.Release(1)
GoReturn ==
    /\ At("ret")
    /\ log' = log \cup Report(x, x.path, fid)
    /\ sema' = [sema EXCEPT !.cur = @ - 1]
    /\ x' = [x EXCEPT !.pc = Outcome(x)]
    /\ UNCHANGED <<workers, per, keepbad, args, widx, closed, mpc, f, fid, gor, crashed>>

CodecNext ==
    \/ Open
    \/ ReadEnvelope
    \/ CheckMagic
    \/ DeriveUPI
    \/ MkdirAll
    \/ ProcessIntro
    \/ ProcessMeta
    \/ ProcessData
    \/ WriteHeader
    \/ WriteRow
    \/ RowsDone
    \/ Flush
    \/ GoReturn

SpecCodec == CodecInit /\ [][CodecNext]_vars

(* -------------------------------- claims ------------------------------- *)

\* processFile has returned in the stepped execution
Returned == x.pc \in {"ret"} \cup Terminal

\* the stepped execution has made no directory and no file
NoOutput == x.dirs = {} /\ ~x.ini.made /\ ~x.xml.made /\ ~x.csv.made

\* the stepped execution reads a file of at least 4 bytes with another tag
OtherTag == x.fault = "none" /\ Len(x.data) >= 4 /\ SubSeq(x.data, 1, 4) # magic

\* the sample block of the stepped execution: column count, and the bytes
\* that follow the scale words
BlockRead == x.csv.made /\ Len(x.buf) >= 1
BlockCols == x.buf[1]
BlockRest == Len(x.buf) - 1 - 2 * BlockCols

\* C1: once the worker count is effective, at most that many goroutines are
\* running, and until the last Acquire the units held are exactly one per
\* running goroutine (a unit is taken before the start and given back at the
\* end of a goroutine, whatever processFile returned).
C1_WorkerLimit ==
    mpc \notin {"flags", "idle"} =>
        /\ Cardinality(Running) <= workers
        /\ mpc # "done" => sema.cur = Cardinality(Running)

\* C1: fewer workers than files, every unit held, main waiting for one, and
\* a pipeline that has already finished
C1_Witness ==
    /\ workers < NumFiles
    /\ mpc = "acquire"
    /\ Cardinality(Running) = workers
    /\ \E g \in DOMAIN gor : gor[g].st \in Terminal

\* the paths walkFiles sends, in order
Delivered == SelectSeq(args, LAMBDA p : ~Filtered(p))

\* C2 (as claimed): when the process has ended, by the return of main or by
\* a panic, every path sent has been given to exactly one goroutine, which
\* got that path, and that goroutine has ended in done, failed or skipped.
C2_EveryFileCompletesOnce ==
    (mpc = "done" \/ crashed) =>
        \A k \in 1..Len(Delivered) :
            LET started == {g \in DOMAIN gor :
                               gor[g].st # "none" /\ gor[g].f = Delivered[k]}
            IN /\ Cardinality(started) = 1
               /\ \A g \in started : gor[g].st \in Terminal

\* C3: main never returns while a goroutine is running, and the run ends:
\* main returns, unless a goroutine never finishes (its processFile panics
\* or never returns).
C3_FullDrain ==
    /\ [](mpc = "done" => Running = {})
    /\ <>(mpc = "done" \/ crashed \/ \E g \in DOMAIN gor : Hung(g))

\* C3: main has returned after every file was given to a goroutine, with
\* fewer workers than files
C3_Witness ==
    /\ mpc = "done"
    /\ workers = 1 /\ fid = NumFiles
    /\ sema.cur = workers /\ Running = {}

\* C4 (as claimed): a file of at least 4 bytes whose tag is not "SVS " gives
\* no output and no error, whatever its length.
C4_OtherTagSilent ==
    (Returned /\ OtherTag) => (NoOutput /\ x.file = <<>> /\ x.err = "nil")

\* C4 (amended): a file whose tag is not "SVS " gives no output; it gives no
\* error and no log line when it has the 16 bytes of the envelope, and the
\* error unexpected EOF, logged, when it has 4 to 15 bytes.
C4_OtherTagSkippedOrShort ==
    (Returned /\ OtherTag) =>
        /\ NoOutput /\ x.file = <<>>
        /\ Len(x.data) >= 16 => (x.err = "nil" /\ x.pc # "failed" /\ log = {})
        /\ Len(x.data) < 16 => (x.err = "unexpected EOF" /\ x.pc # "done")
        /\ x.pc \in Terminal =>
              (Len(x.data) < 16 <=> \E l \in log : l.kind = "error")

\* C4: a file of 15 bytes with another tag has been reported as failed
C4_Witness ==
    /\ OtherTag /\ Len(x.data) = 15
    /\ x.pc = "failed"

\* C5 (as claimed): the CSV and the XML of a data record are in the
\* directory named by the 6 digits of envelope sequence / files per directory.
C5_ShardByEnvelopeSequence ==
    x.xml.made =>
        LET shard == PathJoin(x.datadir, Sprintf06d(x.Seq \div EffectivePer(per)))
        IN /\ x.xml.path = PathJoin(shard, x.name) \o <<46, 120, 109, 108>>
           /\ x.csv.made => x.csv.path = PathJoin(shard, x.name)

C7_PartialRowFails ==
    (x.pc \in Terminal /\ BlockRead /\ BlockCols >= 1 /\ BlockRest >= 0) =>
        IF BlockRest % (4 * BlockCols) # 0
        THEN /\ x.pc = "failed" /\ x.err # "nil"
             /\ \E l \in log : l.kind = "error" /\ l.f = x.path
             /\ \A l \in log : l.kind # "processing"
        ELSE /\ x.pc = "done" /\ x.err = "nil"
             /\ Len(x.csv.rows) = BlockRest \div (4 * BlockCols) + 1
             /\ \A k \in 2..Len(x.csv.rows) :
                   /\ x.csv.rows[k][1] = <<48 + (k - 2)>>
                   /\ Len(x.csv.rows[k]) = BlockCols + 1
             /\ log = {[kind |-> "processing", f |-> x.path, i |-> fid + 1,
                        file |-> x.csv.path, err |-> "nil"]}

\* C7: a block of two columns cut between the two floats of a row has failed
C7_Witness ==
    /\ x.pc = "failed" /\ BlockRead
    /\ BlockCols = 2 /\ BlockRest % 8 = 4

\* C8 (as claimed): no recognized file, whatever the number of segments of
\* its name, aborts the run.
C8_NameNeverAborts == ~crashed

\* C9 (as claimed): the metadata document holds the identifier, without its
\* trailing zero bytes, in an element named user-packet-info, and the
\* acquisition time in its precise form in an element named acquisition-time.
C9_DocumentFieldNames ==
    x.xml.made =>
        LET elems == x.xml.doc.elems
        IN /\ \E k \in 1..Len(elems) :
                 /\ elems[k].name = "user-packet-info"
                 /\ elems[k].value = TrimRightZero(x.info.UPI)
           /\ \E k \in 1..Len(elems) :
                 /\ elems[k].name = "acquisition-time"
                 /\ elems[k].value = TimestampString(x.info.Acquisition)

\* C10 (as claimed): every iteration of the row loop consumes bytes of the
\* sample block: the rows written are never more than the bytes read after
\* the scale words.
C10_RowLoopConsumes ==
    x.pc = "rows" => x.i <= x.rs - 1 - 2 * x.b

====
